---- MODULE Spec2Model ----
(***************************************************************************)
(* Weighted load balancer forwarding strategy (NFD).                       *)
(*                                                                         *)
(* State: the per-prefix MyMeasurementInfo tables (WeightedFaceSet), the   *)
(* per-PIT-entry MyPitInfo stamps and out-records.  One action per         *)
(* strategy callback (afterReceiveInterest, beforeSatisfyInterest,         *)
(* beforeExpirePendingInterest), whose inputs are the FIB entry the host   *)
(* matched, the scope of the Interest, the retransmission decision and     *)
(* the reading of the wall clock; one action for the host erasing a        *)
(* satisfied or rejected PIT entry.                                        *)
(***************************************************************************)
EXTENDS Integers, Sequences, FiniteSets, TLC

\* ------------------------------------------------------------------------
\* Bounds of the model
\* ------------------------------------------------------------------------

\* width in bits of the signed millisecond counter (64 in the build)
DurationBits == 5

\* significant bits of the floating point type holding a weight (53 in the build)
MantissaBits == 3

\* width in bits of an unsigned face id / loop index (64 in the build)
FaceIdBits == 6

\* system_clock::now() returns the values 0 .. MaxClock
MaxClock == 1

\* number of afterReceiveInterest events in one behaviour
MaxInterests == 2

\* ------------------------------------------------------------------------
\* Names, faces
\* ------------------------------------------------------------------------

Root == << >>
NameA == <<"a">>
NameAX == <<"a", "x">>
NameAY == <<"a", "y">>

\* names of the PIT entries
PitNames == {NameAX, NameAY}

\* names that can carry a FIB entry with next hops (the root entry always
\* exists and has no next hops)
FibNames == {NameA, NameAX}

\* nodes of the name tree that can carry a measurements entry
MeasNames == {Root, NameA, NameAX, NameAY}

\* faces that occur as next hops
NextHopFaces == {10, 20, 30}

\* the next-hop lists a FIB entry takes
NextHopLists == {{}, {10, 20}, {10, 30}}

\* sets of faces an Interest's scope forbids, in the specification of the
\* callbacks: none or all of them
ScopeSets == {{}, NextHopFaces}

\* faces an Interest arrives on
InFaces == {1, 10}

Faces == NextHopFaces \cup InFaces

INVALID_FACEID == 2 ^ FaceIdBits - 1

\* values of the random sample, one at and one inside every interval
Samples == {0} \cup NextHopFaces \cup {f + 1 : f \in NextHopFaces}

NoInfo == [none |-> TRUE]
NoStamp == -1

RetxDecisions == {"NEW", "FORWARD", "SUPPRESS"}

\* outcomes of a signed overflow of the millisecond counter
OverflowOutcomes == {"wrap", "wide"}

\* ------------------------------------------------------------------------
\* WeightedFace
\* ------------------------------------------------------------------------

\* milliseconds::max()
MAX_DELAY == 2 ^ (DurationBits - 1) - 1

\* x reduced into the range of the signed millisecond counter
WrapDuration(x) ==
  ((x + 2 ^ (DurationBits - 1)) % (2 ^ DurationBits)) - 2 ^ (DurationBits - 1)

RECURSIVE UnitOf(_, _)
\* spacing of the floating point values around x >= 0
UnitOf(x, u) ==
  IF x < u * 2 ^ MantissaBits THEN u ELSE UnitOf(x, 2 * u)

\* conversion of a non-negative integer to floating point, round to nearest even
RoundNat(x) ==
  LET u == UnitOf(x, 1)
      q == x \div u
      r == x % u
  IN  IF 2 * r < u THEN q * u
      ELSE IF 2 * r > u THEN (q + 1) * u
      ELSE IF q % 2 = 0 THEN q * u ELSE (q + 1) * u

\* conversion of an integer to floating point (1.0 * x)
DoubleOf(x) == IF x >= 0 THEN RoundNat(x) ELSE 0 - RoundNat(0 - x)

\* a weight w is kept as its numerator, w = numerator / WeightOne
WeightOne == DoubleOf(MAX_DELAY)

\* milliseconds::max() - lastDelay, a signed subtraction that overflows for
\* lastDelay < 0
MaxMinus(lastDelay, ovf) ==
  IF MAX_DELAY - lastDelay <= MAX_DELAY THEN MAX_DELAY - lastDelay
  ELSE IF ovf = "wrap" THEN WrapDuration(MAX_DELAY - lastDelay)
  ELSE MAX_DELAY - lastDelay

calculateWeight(lastDelay, ovf) == DoubleOf(MaxMinus(lastDelay, ovf))

\* WeightedFace(face, delay = 0)
WeightedFace(face) ==
  [face |-> face, lastDelay |-> 0, weight |-> calculateWeight(0, "wrap")]

\* an order on lastDelay alone, without the face id as tie-breaker
LessThanByDelayOnly(a, b) == a.lastDelay < b.lastDelay

\* operator< of WeightedFace
LessThan(a, b) ==
  IF a.lastDelay = b.lastDelay THEN a.face < b.face
  ELSE a.lastDelay < b.lastDelay

modifyWeightedFaceDelay(weightedFace, delay, ovf) ==
  [weightedFace EXCEPT !.lastDelay = delay,
                       !.weight = calculateWeight(delay, ovf)]

\* ------------------------------------------------------------------------
\* WeightedFaceSet: a set of WeightedFace, unique by (lastDelay, face) order
\* and unique by face id
\* ------------------------------------------------------------------------

Ids(table) == {wf.face : wf \in table}

\* find() on the ByFaceId index: the entries with that id
Find(table, id) == {wf \in table : wf.face = id}

\* equivalent keys in the ordered_unique ByDelay index
SameOrderKey(a, b) == ~LessThan(a, b) /\ ~LessThan(b, a)

\* insert(): refused when either unique index already holds the key
Insert(table, wf) ==
  IF \E other \in table : other.face = wf.face \/ SameOrderKey(other, wf)
  THEN table
  ELSE table \cup {wf}

\* a modify() that writes the new delay and weight to every element
ModifyAll(table, old, new) ==
  {[wf EXCEPT !.lastDelay = new.lastDelay, !.weight = new.weight] : wf \in table}

\* modify(): the element is changed in place; it is erased when the changed
\* element collides with another one in a unique index
Modify(table, old, new) ==
  IF \E other \in table \ {old} : other.face = new.face \/ SameOrderKey(other, new)
  THEN table \ {old}
  ELSE (table \ {old}) \cup {new}

\* ------------------------------------------------------------------------
\* MyMeasurementInfo
\* ------------------------------------------------------------------------

\* MyMeasurementInfo(): an empty WeightedFaceSet
NewMeasurementInfo == [weightedFaces |-> {}]

updateFaceDelay(weightedFaces, face, delay, ovf) ==
  LET faceEntry == Find(weightedFaces, face)
  IN  IF faceEntry # {}
      THEN LET old == CHOOSE wf \in faceEntry : TRUE
           IN  Modify(weightedFaces, old, modifyWeightedFaceDelay(old, delay, ovf))
      ELSE weightedFaces

RECURSIVE InsertNextHops(_, _, _)
\* the loop of updateStoredNextHops over the next hops not yet visited
InsertNextHops(weightedFaces, updatedFaceSet, nexthops) ==
  IF nexthops = {} THEN updatedFaceSet
  ELSE LET face == CHOOSE f \in nexthops : \A g \in nexthops : f <= g
           weightedIt == Find(weightedFaces, face)
           inserted == IF weightedIt = {}
                       THEN Insert(updatedFaceSet, WeightedFace(face))
                       ELSE Insert(updatedFaceSet, CHOOSE wf \in weightedIt : TRUE)
       IN  InsertNextHops(weightedFaces, inserted, nexthops \ {face})

\* a reconciliation that rebuilds the table from scratch
updateStoredNextHopsFresh(weightedFaces, nexthops) ==
  InsertNextHops({}, {}, nexthops)

\* a reconciliation that enters the missing next hops and drops the stored ones
updateStoredNextHopsMissingOnly(weightedFaces, nexthops) ==
  InsertNextHops(weightedFaces, {}, nexthops \ Ids(weightedFaces))

updateStoredNextHops(weightedFaces, nexthops) ==
  InsertNextHops(weightedFaces, {}, nexthops)

\* ------------------------------------------------------------------------
\* selectOutgoingFace
\* ------------------------------------------------------------------------

NoFace == [kind |-> "none", face |-> 0]
Crash == [kind |-> "crash", face |-> 0]
Selected(f) == [kind |-> "face", face |-> f]

\* an eligibility test that ignores the scope
isEligibleFaceNoScope(viol, downstream, upstream) == downstream # upstream

\* viol: the faces for which pitEntry->violatesScope() holds
isEligibleFace(viol, downstream, upstream) ==
  downstream # upstream /\ upstream \notin viol

\* the sequences in which the hashed ByFaceId index can iterate the table
IterById(weightedFaces) ==
  LET n == Cardinality(weightedFaces)
  IN  {order \in [1 .. n -> weightedFaces] :
         \A i, j \in 1 .. n : i # j => order[i] # order[j]}

\* faceIds: the ids in iteration order, followed by INVALID_FACEID
FaceIdsOf(order) ==
  [i \in 1 .. Len(order) + 1 |->
     IF i <= Len(order) THEN order[i].face ELSE INVALID_FACEID]

\* the values std::piecewise_constant_distribution can return, truncated to
\* an unsigned integer: a point of an interval of positive weight when the
\* boundaries increase and the weights are non-negative and not all zero,
\* 0 for a single boundary, any value otherwise
SampleOutcomes(order) ==
  LET faceIds == FaceIdsOf(order)
      n == Len(order)
  IN  IF n = 0 THEN {0}
      ELSE IF /\ \A i \in 1 .. n : faceIds[i] < faceIds[i + 1]
              /\ \A i \in 1 .. n : order[i].weight >= 0
              /\ \E i \in 1 .. n : order[i].weight > 0
      THEN {s \in Samples : \E i \in 1 .. n :
              /\ order[i].weight > 0
              /\ faceIds[i] <= s
              /\ s < faceIds[i + 1]}
      ELSE Samples

\* facesById.size() - 1 on the unsigned size
ScanBound(order) == (Len(order) - 1) % (2 ^ FaceIdBits)

RECURSIVE FirstPass(_, _, _, _, _, _)
\* the first loop from index i on (faceEntry is at position i);
\* returns the face selected in the loop, or firstMatchIndex at its end
FirstPass(order, viol, inFace, selection, i, firstMatchIndex) ==
  LET faceIds == FaceIdsOf(order)
  IN  IF ~(i < ScanBound(order))
      THEN [returned |-> FALSE, face |-> 0, firstMatchIndex |-> firstMatchIndex]
      ELSE IF faceIds[i + 1] <= selection /\ selection < faceIds[i + 2]
      THEN IF isEligibleFace(viol, inFace, order[i + 1].face)
           THEN [returned |-> TRUE, face |-> order[i + 1].face,
                 firstMatchIndex |-> firstMatchIndex]
           ELSE FirstPass(order, viol, inFace, selection, i + 1,
                          IF i < firstMatchIndex THEN i ELSE firstMatchIndex)
      ELSE FirstPass(order, viol, inFace, selection, i + 1, firstMatchIndex)

\* a selector that does not try the last position
LastPositionSkipped(order, viol, inFace) == NoFace

\* the check of the position the first loop stops at: faceEntry is at the
\* last position, index size() - 1
LastPosition(order, viol, inFace) ==
  IF Len(order) >= 1 /\ isEligibleFace(viol, inFace, order[Len(order)].face)
  THEN Selected(order[Len(order)].face)
  ELSE NoFace

RECURSIVE WrapAround(_, _, _, _, _)
\* the second loop, over the indexes i .. limit - 1
WrapAround(order, viol, inFace, i, limit) ==
  IF ~(i < limit) THEN NoFace
  ELSE IF isEligibleFace(viol, inFace, order[i + 1].face)
  THEN Selected(order[i + 1].face)
  ELSE WrapAround(order, viol, inFace, i + 1, limit)

Min(a, b) == IF a < b THEN a ELSE b

\* an empty table: the first loop runs up to index 2^64 - 2, increments the
\* end iterator and reads faceIds out of bounds; the behaviour is undefined.
\* Every return of a face is guarded by isEligibleFace on that object.
UndefinedOutcomes(viol, inFace) ==
  {NoFace, Crash} \cup
  {Selected(g) : g \in {f \in Faces : isEligibleFace(viol, inFace, f)}}

\* the outcomes of selectOutgoingFace for the table iterated in `order`
selectOutgoingFace(order, viol, inFace, selection) ==
  IF Len(order) = 0 THEN UndefinedOutcomes(viol, inFace)
  ELSE LET first == FirstPass(order, viol, inFace, selection, 0, INVALID_FACEID)
           last_ == LastPosition(order, viol, inFace)
           limit == Min(first.firstMatchIndex, Len(order))
       IN  IF first.returned THEN {Selected(first.face)}
           ELSE IF last_ # NoFace THEN {last_}
           ELSE {WrapAround(order, viol, inFace, 0, limit)}

\* the faces selectOutgoingFace can return for a table, over the iteration
\* orders of the table and the values of the sample
SelectOutcomes(weightedFaces, viol, inFace) ==
  UNION {UNION {selectOutgoingFace(order, viol, inFace, selection) :
                  selection \in SampleOutcomes(order)} :
           order \in IterById(weightedFaces)}

\* ------------------------------------------------------------------------
\* State
\* ------------------------------------------------------------------------

VARIABLES
  pit,         \* PIT: name -> entry with its MyPitInfo stamp and out-records
  info,        \* measurements: name -> MyMeasurementInfo, or NoInfo
  reconciled,  \* name -> the next hops last passed to updateStoredNextHops
  count,       \* numbers of events so far, for the bounds
  last,        \* the last event and what the handler did in it
  sel          \* the last call of selectOutgoingFace, with all its inputs

vars == <<pit, info, reconciled, count, last, sel>>

\* a PIT entry is pending until the host arms its straggler timer (satisfied
\* or rejected); the host then erases it without a callback
NoEntry == [exists |-> FALSE, stamp |-> NoStamp, out |-> {}, pending |-> FALSE]
NoHops == [known |-> FALSE, hops |-> {}]
Hops(nexthops) == [known |-> TRUE, hops |-> nexthops]
NoSel == [none |-> TRUE]

Event(op) ==
  [op |-> op, name |-> Root, inFace |-> 0, decision |-> "", fibName |-> Root,
   hops |-> {}, out |-> {}, before |-> {}, result |-> NoFace,
   extended |-> << >>, stamped |-> FALSE, clock |-> 0]
\* clock: the reading of system_clock::now() by the handler, 0 when it
\* reads none

\* the process runs until a handler crashes
Alive == last.result.kind # "crash"

\* ------------------------------------------------------------------------
\* Host: name tree, FIB entries, clock
\* ------------------------------------------------------------------------

\* MeasurementsAccessor::getParent
Parent(name) == SubSeq(name, 1, Len(name) - 1)

IsPrefixOf(prefix, name) ==
  Len(prefix) <= Len(name) /\ SubSeq(name, 1, Len(prefix)) = prefix

\* the FIB entries the longest prefix match can hand to afterReceiveInterest
\* for a name: the root entry without next hops, or an entry of a prefix
\* with one of the next-hop lists
FibEntries(name) ==
  {[name |-> Root, nexthops |-> {}]} \cup
  {[name |-> n, nexthops |-> h] :
     n \in {m \in FibNames : IsPrefixOf(m, name)}, h \in NextHopLists \ {{}}}

\* the values system_clock::now() returns; the wall clock can be set back
\* between two events
Clock == 0 .. MaxClock

\* ------------------------------------------------------------------------
\* Strategy helpers
\* ------------------------------------------------------------------------

\* a MyPitInfo that is created anew on every call
myCreateMyPitInfo(stamp, clock) == clock

\* stamp: creationTime of the MyPitInfo on the entry, NoStamp when absent
myGetOrCreateMyPitInfo(stamp, clock) ==
  IF stamp = NoStamp THEN clock ELSE stamp

myGetOrCreateMyMeasurementInfo(measurements, fibName) ==
  IF measurements[fibName] = NoInfo
  THEN [measurements EXCEPT ![fibName] = NewMeasurementInfo]
  ELSE measurements

\* demotion on SUPPRESS only
DemotesOnSuppressOnly(suppression) == suppression = "SUPPRESS"

\* the retransmission decisions on which afterReceiveInterest demotes
Demotes(suppression) == suppression = "FORWARD" \/ suppression = "SUPPRESS"

RECURSIVE DemoteOutRecords(_, _)
\* the loop of demoteFace over the out-records not yet visited
DemoteOutRecords(weightedFaces, outRecords) ==
  IF outRecords = {} THEN weightedFaces
  ELSE LET face == CHOOSE f \in outRecords : \A g \in outRecords : f <= g
       IN  DemoteOutRecords(updateFaceDelay(weightedFaces, face, MAX_DELAY, "wrap"),
                            outRecords \ {face})

\* the lifetime demoteFace passes to extendLifetime, in seconds
DemoteLifetime == 16

\* the lifetime beforeSatisfyInterest passes to extendLifetime, in seconds
SatisfyLifetime == 16

\* a call accessor.extendLifetime(*measurementsEntry, seconds(lifetime)) for
\* the measurement entry `name`
ExtendLifetime(name, lifetime) == [name |-> name, seconds |-> lifetime]

RECURSIVE DemoteWalk(_, _, _)
\* the while loop of demoteFace with measurementsEntry at `name`;
\* walk.info: the measurements, walk.extended: the extendLifetime calls
DemoteWalk(walk, name, outRecords) ==
  LET visited ==
        IF walk.info[name] # NoInfo
        THEN [info |-> [walk.info EXCEPT ![name] =
                          [weightedFaces |->
                             DemoteOutRecords(walk.info[name].weightedFaces, outRecords)]],
              extended |-> Append(walk.extended,
                                  ExtendLifetime(name, DemoteLifetime))]
        ELSE walk
  IN  IF name = Root THEN visited
      ELSE DemoteWalk(visited, Parent(name), outRecords)

\* a demotion that stops at the measurement entry of the name itself
demoteFaceNoWalk(measurements, name, outRecords) ==
  IF measurements[name] # NoInfo
  THEN [info |-> [measurements EXCEPT ![name] =
                    [weightedFaces |->
                       DemoteOutRecords(measurements[name].weightedFaces, outRecords)]],
        extended |-> <<ExtendLifetime(name, DemoteLifetime)>>]
  ELSE [info |-> measurements, extended |-> << >>]

\* a demotion that extends no lifetime
demoteFaceNoExtend(measurements, name, outRecords) ==
  [info |-> DemoteWalk([info |-> measurements, extended |-> << >>],
                       name, outRecords).info,
   extended |-> << >>]

demoteFace(measurements, name, outRecords) ==
  DemoteWalk([info |-> measurements, extended |-> << >>], name, outRecords)

RECURSIVE SatisfyWalk(_, _, _, _, _)
\* the while loop of beforeSatisfyInterest with measurementsEntry at `name`
SatisfyWalk(walk, name, inFace, delay, ovf) ==
  LET visited ==
        IF walk.info[name] # NoInfo
        THEN [info |-> [walk.info EXCEPT ![name] =
                          [weightedFaces |->
                             updateFaceDelay(walk.info[name].weightedFaces,
                                             inFace, delay, ovf)]],
              extended |-> Append(walk.extended,
                                  ExtendLifetime(name, SatisfyLifetime))]
        ELSE walk
  IN  IF name = Root THEN visited
      ELSE SatisfyWalk(visited, Parent(name), inFace, delay, ovf)

\* a delay update that stops at the measurement entry of the name itself
SatisfyInterestNoWalk(measurements, name, stamp, inFace, clock, ovf) ==
  IF stamp # NoStamp /\ measurements[name] # NoInfo
  THEN [info |-> [measurements EXCEPT ![name] =
                    [weightedFaces |->
                       updateFaceDelay(measurements[name].weightedFaces,
                                       inFace, clock - stamp, ovf)]],
        extended |-> <<ExtendLifetime(name, SatisfyLifetime)>>]
  ELSE [info |-> measurements, extended |-> << >>]

\* a delay update that does not test for a missing MyPitInfo
SatisfyInterestNoStampTest(measurements, name, stamp, inFace, clock, ovf) ==
  SatisfyWalk([info |-> measurements, extended |-> << >>],
              name, inFace, clock - stamp, ovf)

\* the strategy's part of beforeSatisfyInterest
SatisfyInterest(measurements, name, stamp, inFace, clock, ovf) ==
  IF stamp = NoStamp
  THEN [info |-> measurements, extended |-> << >>]
  ELSE SatisfyWalk([info |-> measurements, extended |-> << >>],
                   name, inFace, clock - stamp, ovf)

\* ------------------------------------------------------------------------
\* Strategy callbacks
\* ------------------------------------------------------------------------

\* afterReceiveInterest for the PIT entry `name`; the host has created the
\* entry, looked up the FIB entry, and adds an out-record on sendInterest.
\* The Interest arrives on inFace, and its scope forbids the faces viol
afterReceiveInterest(name, suppression, fibEntry, clock) ==
  /\ Alive
  /\ count.interests < MaxInterests
  /\ \E demoted \in {IF Demotes(suppression)
                     THEN demoteFace(info, name, pit[name].out)
                     ELSE [info |-> info, extended |-> << >>]} :
     \E stamp \in {myGetOrCreateMyPitInfo(pit[name].stamp, clock)} :
     \E created \in {myGetOrCreateMyMeasurementInfo(demoted.info, fibEntry.name)} :
     \E updated \in {updateStoredNextHops(created[fibEntry.name].weightedFaces,
                                          fibEntry.nexthops)} :
     \E inFace \in InFaces, viol \in ScopeSets :
     \E selectedFace \in SelectOutcomes(updated, viol, inFace) :
       /\ info' = [created EXCEPT ![fibEntry.name] = [weightedFaces |-> updated]]
       /\ reconciled' = [reconciled EXCEPT ![fibEntry.name] = Hops(fibEntry.nexthops)]
       /\ pit' = [pit EXCEPT ![name] =
                    [exists |-> TRUE,
                     stamp |-> stamp,
                     out |-> IF selectedFace.kind = "face"
                             THEN pit[name].out \cup {selectedFace.face}
                             ELSE pit[name].out,
                     pending |-> selectedFace.kind = "face" \/ pit[name].out # {}]]
       /\ last' = [Event("interest") EXCEPT
                     !.name = name, !.inFace = inFace,
                     !.decision = suppression, !.fibName = fibEntry.name,
                     !.hops = fibEntry.nexthops, !.out = pit[name].out,
                     !.before = created[fibEntry.name].weightedFaces,
                     !.result = selectedFace,
                     !.extended = demoted.extended,
                     !.stamped = pit[name].stamp # NoStamp,
                     !.clock = IF pit[name].stamp = NoStamp THEN clock ELSE 0]
       /\ count' = [count EXCEPT !.interests = @ + 1]
       /\ UNCHANGED sel

\* beforeSatisfyInterest for the PIT entry `name`, Data arriving on inFace
\* when the clock reads `clock`; the host then deletes the out-record of
\* inFace and arms the straggler timer
beforeSatisfyInterest(name, inFace, clock, ovf) ==
  /\ Alive
  /\ pit[name].exists
  /\ pit[name].pending
  /\ \E walk \in {SatisfyInterest(info, name, pit[name].stamp, inFace, clock, ovf)} :
         /\ info' = walk.info
         /\ last' = [Event("data") EXCEPT
                       !.name = name, !.inFace = inFace,
                       !.out = pit[name].out,
                       !.extended = walk.extended,
                       !.stamped = pit[name].stamp # NoStamp,
                       !.clock = clock]
  /\ pit' = [pit EXCEPT ![name].out = @ \ {inFace}, ![name].pending = FALSE]
  /\ UNCHANGED <<reconciled, count, sel>>

\* beforeExpirePendingInterest for the PIT entry `name`; the host then
\* erases the entry
beforeExpirePendingInterest(name) ==
  /\ Alive
  /\ pit[name].exists
  /\ pit[name].pending
  /\ \E walk \in {demoteFace(info, name, pit[name].out)} :
         /\ info' = walk.info
         /\ last' = [Event("expire") EXCEPT
                       !.name = name, !.out = pit[name].out,
                       !.extended = walk.extended,
                       !.stamped = pit[name].stamp # NoStamp]
  /\ pit' = [pit EXCEPT ![name] = NoEntry]
  /\ UNCHANGED <<reconciled, count, sel>>

\* ------------------------------------------------------------------------
\* Host events
\* ------------------------------------------------------------------------

\* the straggler timer of a satisfied or rejected PIT entry fires: the host
\* erases the entry without a callback
PitErase(name) ==
  /\ Alive
  /\ pit[name].exists
  /\ ~pit[name].pending
  /\ pit' = [pit EXCEPT ![name] = NoEntry]
  /\ last' = Event("erase")
  /\ UNCHANGED <<info, reconciled, count, sel>>

\* ------------------------------------------------------------------------
\* Specification
\* ------------------------------------------------------------------------

Init ==
  /\ pit = [n \in PitNames |-> NoEntry]
  /\ info = [n \in MeasNames |-> NoInfo]
  /\ reconciled = [n \in MeasNames |-> NoHops]
  /\ count = [interests |-> 0]
  /\ last = Event("init")
  /\ sel = NoSel

Next ==
  \/ \E name \in PitNames, suppression \in RetxDecisions :
       \E fibEntry \in FibEntries(name), clock \in Clock :
         afterReceiveInterest(name, suppression, fibEntry, clock)
  \/ \E name \in PitNames, inFace \in NextHopFaces, clock \in Clock,
        ovf \in OverflowOutcomes :
       beforeSatisfyInterest(name, inFace, clock, ovf)
  \/ \E name \in PitNames : beforeExpirePendingInterest(name)
  \/ \E name \in PitNames : PitErase(name)

Spec == Init /\ [][Next]_vars

\* ------------------------------------------------------------------------
\* Specification with a PIT entry the strategy has not stamped: the entry of
\* /a/x was created and forwarded to face 10 before this strategy was chosen
\* for the namespace, so it is pending and carries no MyPitInfo
\* ------------------------------------------------------------------------

ForeignEntry == [exists |-> TRUE, stamp |-> NoStamp, out |-> {10}, pending |-> TRUE]

InitForeign ==
  /\ pit = [n \in PitNames |-> IF n = NameAX THEN ForeignEntry ELSE NoEntry]
  /\ info = [n \in MeasNames |-> NoInfo]
  /\ reconciled = [n \in MeasNames |-> NoHops]
  /\ count = [interests |-> 0]
  /\ last = Event("init")
  /\ sel = NoSel

SpecForeign == InitForeign /\ [][Next]_vars

\* ------------------------------------------------------------------------
\* Specification of the selector alone: one call of selectOutgoingFace on a
\* table built by updateStoredNextHops and demoteFace, all inputs recorded
\* ------------------------------------------------------------------------

SelectTables ==
  {DemoteOutRecords(updateStoredNextHops({}, nexthops), outRecords) :
     nexthops \in SUBSET NextHopFaces, outRecords \in SUBSET NextHopFaces}

InitSelect ==
  /\ pit = [n \in PitNames |-> NoEntry]
  /\ \E table \in SelectTables :
       info = [n \in MeasNames |->
                 IF n = NameA THEN [weightedFaces |-> table] ELSE NoInfo]
  /\ reconciled = [n \in MeasNames |-> NoHops]
  /\ count = [interests |-> 0]
  /\ last = Event("init")
  /\ sel = NoSel

SelectFace(inFace, viol) ==
  /\ sel = NoSel
  /\ \E order \in IterById(info[NameA].weightedFaces) :
     \E selection \in SampleOutcomes(order) :
     \E selectedFace \in selectOutgoingFace(order, viol, inFace, selection) :
       /\ sel' = [order |-> order, viol |-> viol, inFace |-> inFace,
                  selection |-> selection, result |-> selectedFace]
       /\ UNCHANGED <<pit, info, reconciled, count, last>>

NextSelect ==
  \E inFace \in InFaces, viol \in SUBSET NextHopFaces : SelectFace(inFace, viol)

SpecSelect == InitSelect /\ [][NextSelect]_vars

\* ------------------------------------------------------------------------
\* Specification of the table alone: updateStoredNextHops and updateFaceDelay
\* applied to the MyMeasurementInfo of /a, drawn from the tables of up to
\* three faces with learned delays
\* ------------------------------------------------------------------------

\* delays a table has learned
LearnedDelays == {0, 1, MAX_DELAY}

\* delays handed to updateFaceDelay: a delay measured on Data (negative when
\* the wall clock was set back) or milliseconds::max()
DelayInputs == {-1, 0, 1, MAX_DELAY}

Tables ==
  {{modifyWeightedFaceDelay(WeightedFace(f), delays[f], "wrap") : f \in faces} :
     faces \in SUBSET NextHopFaces, delays \in [NextHopFaces -> LearnedDelays]}

InitTable ==
  /\ pit = [n \in PitNames |-> NoEntry]
  /\ \E table \in Tables :
       info = [n \in MeasNames |->
                 IF n = NameA THEN [weightedFaces |-> table] ELSE NoInfo]
  /\ reconciled = [n \in MeasNames |-> NoHops]
  /\ count = [interests |-> 0]
  /\ last = Event("init")
  /\ sel = NoSel

\* measurementsEntryInfo->updateStoredNextHops(nexthops)
Reconcile(nexthops) ==
  /\ last.op \in {"init", "delay"}
  /\ info' = [info EXCEPT ![NameA].weightedFaces = updateStoredNextHops(@, nexthops)]
  /\ last' = [Event("reconcile") EXCEPT
                !.hops = nexthops, !.before = info[NameA].weightedFaces]
  /\ UNCHANGED <<pit, reconciled, count, sel>>

\* updateStoredNextHops called again with the next hops of the last call
ReconcileAgain ==
  /\ last.op = "reconcile"
  /\ info' = [info EXCEPT ![NameA].weightedFaces = updateStoredNextHops(@, last.hops)]
  /\ last' = [Event("reconcile again") EXCEPT
                !.hops = last.hops, !.before = info[NameA].weightedFaces]
  /\ UNCHANGED <<pit, reconciled, count, sel>>

\* measurementsEntryInfo->updateFaceDelay(face, delay)
RecordDelay(face, delay, ovf) ==
  /\ last.op = "init"
  /\ info' = [info EXCEPT ![NameA].weightedFaces = updateFaceDelay(@, face, delay, ovf)]
  /\ last' = [Event("delay") EXCEPT
                !.inFace = face, !.before = info[NameA].weightedFaces]
  /\ UNCHANGED <<pit, reconciled, count, sel>>

NextTable ==
  \/ \E nexthops \in SUBSET NextHopFaces : Reconcile(nexthops)
  \/ ReconcileAgain
  \/ \E face \in NextHopFaces, delay \in DelayInputs, ovf \in OverflowOutcomes :
       RecordDelay(face, delay, ovf)

SpecTable == InitTable /\ [][NextTable]_vars

\* ------------------------------------------------------------------------
\* Properties
\* ------------------------------------------------------------------------

\* the measurement entries on the ancestor chain of a name, up to the root
ChainSet(name) == {SubSeq(name, 1, k) : k \in 0 .. Len(name)}

\* the table of the measurement entry n, empty without MyMeasurementInfo
TableOf(measurements, n) ==
  IF measurements[n] = NoInfo THEN {} ELSE measurements[n].weightedFaces

\* a call of selectOutgoingFace is recorded
HasSel == sel # NoSel

\* the faces of the recorded call that are eligible
SelEligible ==
  {sel.order[i].face : i \in {j \in 1 .. Len(sel.order) :
     isEligibleFace(sel.viol, sel.inFace, sel.order[j].face)}}

\* C1: a face returned by selectOutgoingFace differs from the ingress face
\* and does not violate the scope of the PIT entry, whatever the table, the
\* iteration order, the scope and the sample, on every return path.
C1_SelectedFaceEligible ==
  (HasSel /\ sel.result.kind = "face") =>
    /\ sel.result.face # sel.inFace
    /\ sel.result.face \notin sel.viol

\* C1 witness: a face returned by the wrap-around scan: the sampled position
\* (the second of three) and the last position are ineligible, the first
\* position is returned.
C1_Witness ==
  /\ HasSel
  /\ Len(sel.order) = 3
  /\ sel.order[2].face <= sel.selection
  /\ sel.selection < sel.order[3].face
  /\ ~isEligibleFace(sel.viol, sel.inFace, sel.order[2].face)
  /\ ~isEligibleFace(sel.viol, sel.inFace, sel.order[3].face)
  /\ sel.result = Selected(sel.order[1].face)

\* C2 (as claimed): if at least one face of a non-empty table is eligible,
\* selectOutgoingFace returns a face.
C2_NeverBlocks ==
  (HasSel /\ Len(sel.order) >= 1 /\ SelEligible # {}) =>
    sel.result.kind = "face"

\* C3 (as claimed): with an empty next-hop list the table is empty,
\* selectOutgoingFace returns none and the pending Interest is rejected
\* (no out-record is added).
C3_EmptyTableReturnsNone ==
  (last.op = "interest" /\ last.hops = {}) =>
    /\ last.result = NoFace
    /\ pit[last.name].out = last.out

\* the table of measurement entry n right after the demoteFace of the last
\* event: afterReceiveInterest reconciles the table of the FIB entry after it
TableAfterDemote(n) ==
  IF last.op = "interest" /\ n = last.fibName THEN last.before
  ELSE TableOf(info, n)

\* C4: after demoteFace (on expiry, or on a FORWARD or SUPPRESS decision),
\* every face of the out-records has lastDelay = MAX_DELAY and weight 0 in
\* every table on the ancestor chain of the PIT entry's name that holds it.
C4_DemotedFacesAtMax ==
  (last.op = "expire" \/ (last.op = "interest" /\ Demotes(last.decision))) =>
    \A n \in ChainSet(last.name) :
      \A wf \in TableAfterDemote(n) :
        wf.face \in last.out => (wf.lastDelay = MAX_DELAY /\ wf.weight = 0)

\* C4 witness: a PIT entry expired whose out-record face is held, demoted, by
\* the tables of two ancestors.
C4_Witness ==
  /\ last.op = "expire"
  /\ \E f \in last.out :
       /\ [face |-> f, lastDelay |-> MAX_DELAY, weight |-> 0] \in TableOf(info, NameA)
       /\ [face |-> f, lastDelay |-> MAX_DELAY, weight |-> 0] \in TableOf(info, NameAX)

\* scenario S2: a duplicate Interest /a/x on face 1, decision FORWARD, FIB
\* entry /a with next hops {10, 20}, the first Interest forwarded to face 10
\* only, the PrefixMeasurement of /a holding both faces
S2 ==
  /\ last.op = "interest"
  /\ last.name = NameAX
  /\ last.inFace = 1
  /\ last.decision = "FORWARD"
  /\ last.fibName = NameA
  /\ last.hops = {10, 20}
  /\ last.out = {10}
  /\ Ids(last.before) = {10, 20}

AtMax(table, f) ==
  \E wf \in table : wf.face = f /\ wf.lastDelay = MAX_DELAY /\ wf.weight = 0

\* C5 (as claimed): in S2 both face 10 and face 20 end with delay MAX_DELAY
\* and weight 0 in the PrefixMeasurement of /a.
C5_S2_BothFacesDemoted ==
  S2 => (AtMax(TableOf(info, NameA), 10) /\ AtMax(TableOf(info, NameA), 20))

\* C5 (amended): in S2 face 10, the only face of the out-records, ends with
\* delay MAX_DELAY and weight 0 in the PrefixMeasurement of /a; the entry of
\* face 20 is the one the table held before the Interest.
C5_S2_TriedFaceDemoted ==
  [][S2' => /\ AtMax(TableOf(info', NameA), 10)
            /\ \A wf \in TableOf(info, NameA) :
                 wf.face = 20 => wf \in TableOf(info', NameA)]_vars

\* C5 witness: S2 with face 10 demoted and face 20 still at delay 0.
C5_Witness ==
  /\ S2
  /\ AtMax(TableOf(info, NameA), 10)
  /\ WeightedFace(20) \in TableOf(info, NameA)

\* C6: Data on face f for a stamped PIT entry sets lastDelay(f) to the clock
\* reading minus the stamp in every table on the ancestor chain that holds
\* f, and leaves every other entry of those tables as it was.
C6_UpwardDelay ==
  [][(last'.op = "data" /\ last'.stamped) =>
       \A n \in ChainSet(last'.name) :
         \A wf \in TableOf(info, n) :
           IF wf.face = last'.inFace
           THEN \E new \in TableOf(info', n) :
                  /\ new.face = wf.face
                  /\ new.lastDelay = last'.clock - pit[last'.name].stamp
           ELSE wf \in TableOf(info', n)]_vars

\* C6 witness: Data with a non-zero delay recorded in the tables of /a/x and
\* of /a, each holding another face as well.
C6_Witness ==
  /\ last.op = "data"
  /\ last.stamped
  /\ last.clock - pit[last.name].stamp # 0
  /\ \A n \in {NameA, NameAX} :
       /\ \E wf \in TableOf(info, n) :
            /\ wf.face = last.inFace
            /\ wf.lastDelay = last.clock - pit[last.name].stamp
       /\ \E wf \in TableOf(info, n) : wf.face # last.inFace

\* C7: the face ids of every table are those of the next-hop list last
\* passed to updateStoredNextHops, one entry for each.
C7_Membership ==
  \A n \in MeasNames :
    info[n] # NoInfo =>
      /\ reconciled[n].known
      /\ Ids(info[n].weightedFaces) = reconciled[n].hops
      /\ Cardinality(info[n].weightedFaces) = Cardinality(reconciled[n].hops)

\* C7 witness: a table reconciled with {10, 30} after Data and a demotion
\* have changed its delays.
C7_Witness ==
  /\ info[NameA] # NoInfo
  /\ reconciled[NameA] = Hops({10, 30})
  /\ \E wf \in info[NameA].weightedFaces : wf.lastDelay = MAX_DELAY
  /\ \E wf \in info[NameA].weightedFaces : wf.lastDelay = 1

\* C8: updateStoredNextHops keeps the entry (delay and weight) of every face
\* of the new list that the table held, enters every other face of the list
\* with delay 0, and drops every face not in the list.
C8_ReconcilePreserves ==
  last.op = "interest" =>
    LET table == TableOf(info, last.fibName)
    IN  /\ \A f \in last.hops :
             IF f \in Ids(last.before)
             THEN \A wf \in last.before : wf.face = f => wf \in table
             ELSE [face |-> f, lastDelay |-> 0, weight |-> WeightOne] \in table
        /\ Ids(table) \subseteq last.hops

\* C8 witness (S3): a table holding face 10 with a learned delay and face 20
\* is reconciled with {10, 30}: 10 keeps its delay, 30 enters with delay 0.
C8_Witness ==
  /\ last.op = "interest"
  /\ last.hops = {10, 30}
  /\ Ids(last.before) = {10, 20}
  /\ \E wf \in last.before :
       /\ wf.face = 10
       /\ wf.lastDelay = 1
       /\ wf \in TableOf(info, last.fibName)
  /\ WeightedFace(30) \in TableOf(info, last.fibName)

\* C9 (as claimed): every WeightedFace has 0 <= lastDelay <= MAX_DELAY,
\* 0 <= weight <= 1 and weight = (MAX_DELAY - lastDelay) / MAX_DELAY in
\* floating point.
C9_DelayAndWeightInRange ==
  \A n \in MeasNames :
    \A wf \in TableOf(info, n) :
      /\ 0 <= wf.lastDelay
      /\ wf.lastDelay <= MAX_DELAY
      /\ 0 <= wf.weight
      /\ wf.weight <= WeightOne
      /\ wf.weight = DoubleOf(MAX_DELAY - wf.lastDelay)

\* C10: the creationTime of a PIT entry's MyPitInfo is the clock reading of
\* the first afterReceiveInterest for the entry, and no later event on the
\* entry changes it.
C10_StampedOnce ==
  [][\A p \in PitNames :
       /\ (pit[p].stamp # NoStamp /\ pit'[p].exists) => pit'[p].stamp = pit[p].stamp
       /\ (pit[p].stamp = NoStamp /\ pit'[p].stamp # NoStamp) =>
            (last'.op = "interest" /\ last'.name = p /\ pit'[p].stamp = last'.clock)]_vars

\* C10 witness: an entry stamped at 1 and sent on two faces (the Interest
\* was retransmitted), then Data at clock reading 0: the stamp is still 1.
C10_Witness ==
  /\ last.op = "data"
  /\ last.clock = 0
  /\ Cardinality(last.out) = 2
  /\ pit[last.name].stamp = 1

\* C11: Data for a PIT entry without MyPitInfo changes no table (no delay,
\* no weight) and extends the lifetime of no measurement entry.
C11_UnstampedDataNoChange ==
  [][(last'.op = "data" /\ ~last'.stamped) =>
       (info' = info /\ last'.extended = << >>)]_vars

\* C11 witness: Data on face 10 for the unstamped entry /a/x while the table
\* of /a holds face 10, learned from an Interest for /a/y.
C11_Witness ==
  /\ last.op = "data"
  /\ ~last.stamped
  /\ last.name = NameAX
  /\ last.inFace = 10
  /\ 10 \in Ids(TableOf(info, NameA))
  /\ last.extended = << >>

\* the recorded call iterated the table in ascending order of face id
SelAscending ==
  \A i \in 1 .. Len(sel.order) - 1 : sel.order[i].face < sel.order[i + 1].face

\* the positions (from 1) of the recorded call whose interval holds the sample
SelSampled ==
  {k \in 1 .. Len(sel.order) :
     /\ FaceIdsOf(sel.order)[k] <= sel.selection
     /\ sel.selection < FaceIdsOf(sel.order)[k + 1]}

\* the face at position k of the recorded call is eligible
SelEligibleAt(k) == isEligibleFace(sel.viol, sel.inFace, sel.order[k].face)

\* the first eligible face in the order k+1, ..., N, 1, ..., k-1 of positions
FallbackResult(k) ==
  LET n == Len(sel.order)
      following == [i \in 1 .. n - 1 |-> ((k - 1 + i) % n) + 1]
      eligible == {i \in 1 .. n - 1 : SelEligibleAt(following[i])}
  IN  IF eligible = {} THEN NoFace
      ELSE Selected(sel.order[following[CHOOSE i \in eligible :
                                          \A j \in eligible : i <= j]].face)

\* C12 (as claimed): when the face at the sampled position k is ineligible,
\* selectOutgoingFace returns the first eligible face in the order k+1, ...,
\* N-1, 0, ..., k-1 (the table iterated in ascending order of face id).
C12_FallbackOrder ==
  (HasSel /\ SelAscending) =>
    \A k \in SelSampled : ~SelEligibleAt(k) => sel.result = FallbackResult(k)

\* scenario S5 as the code runs it: table {10, 20, 30}, the sample on face
\* 10, which violates the scope; 20 and 30 are eligible and 30 is returned
S5_Returns30 ==
  /\ HasSel
  /\ Len(sel.order) = 3
  /\ sel.order[1].face = 10 /\ sel.order[2].face = 20 /\ sel.order[3].face = 30
  /\ sel.viol = {10}
  /\ sel.inFace = 1
  /\ sel.selection = 10
  /\ sel.result = Selected(30)

\* scenario S6: the table holds faces 10 and 20 and the Interest arrived
\* on face 10
S6 ==
  /\ HasSel
  /\ Len(sel.order) = 2
  /\ {sel.order[1].face, sel.order[2].face} = {10, 20}
  /\ sel.inFace = 10

\* C13: in S6, whatever the sample, the delays and the iteration order,
\* selectOutgoingFace returns face 20 when 20 does not violate the scope,
\* and none when it does.
C13_S6_OtherFace ==
  S6 => sel.result = (IF 20 \in sel.viol THEN NoFace ELSE Selected(20))

\* C13 witness: S6 with the sample on face 10: the sampled position is
\* ineligible and face 20, at the last position, is returned.
C13_Witness ==
  /\ S6
  /\ sel.order[1].face = 10
  /\ sel.selection = 11
  /\ 20 \notin sel.viol
  /\ sel.result = Selected(20)

\* C14: updateStoredNextHops(H) applied to the result of
\* updateStoredNextHops(H) leaves the table as it is: same faces, same
\* delays, same weights.
C14_ReconcileIdempotent ==
  [][last'.op = "reconcile again" => info' = info]_vars

\* C14 witness: the second reconciliation with {10, 30} of a table that
\* holds face 10 with a learned delay and face 30 at delay 0.
C14_Witness ==
  /\ last.op = "reconcile again"
  /\ last.hops = {10, 30}
  /\ TableOf(info, NameA) =
       {modifyWeightedFaceDelay(WeightedFace(10), 1, "wrap"), WeightedFace(30)}

\* C20: updateFaceDelay(f, d) leaves the set of face ids as it is, one entry
\* for each id, leaves the entry of every other face as it is, and leaves the
\* table as it is when f is not in it.
C20_UpdateFaceDelayFrame ==
  [][last'.op = "delay" =>
       LET old == TableOf(info, NameA)
           new == TableOf(info', NameA)
       IN  /\ Ids(new) = Ids(old)
           /\ Cardinality(new) = Cardinality(old)
           /\ \A wf \in old : wf.face # last'.inFace => wf \in new
           /\ last'.inFace \notin Ids(old) => new = old]_vars

\* C20 witness: face 10 moved from delay 1 to delay MAX_DELAY in a table
\* whose two other faces are at delay MAX_DELAY as well.
C20_Witness ==
  /\ last.op = "delay"
  /\ last.inFace = 10
  /\ modifyWeightedFaceDelay(WeightedFace(10), 1, "wrap") \in last.before
  /\ TableOf(info, NameA) =
       {modifyWeightedFaceDelay(WeightedFace(f), MAX_DELAY, "wrap") : f \in NextHopFaces}

\* C15 (as claimed): when afterReceiveInterest with decision FORWARD or
\* SUPPRESS reaches the selector, every face of the PIT entry's out-records
\* that the reconciled table of the FIB entry holds has lastDelay MAX_DELAY
\* there.
C15_TriedFacesPenalised ==
  (last.op = "interest" /\ Demotes(last.decision)) =>
    \A wf \in TableOf(info, last.fibName) :
      wf.face \in last.out => wf.lastDelay = MAX_DELAY

\* a retransmitted Interest /a/x whose first transmission went to face 10
\* under the FIB entry /a and which now matches a FIB entry /a/x: face 10 is
\* demoted in the table of /a and enters the new table of /a/x at delay 0
C15_FreshTableAtZero ==
  /\ last.op = "interest"
  /\ Demotes(last.decision)
  /\ last.name = NameAX
  /\ last.fibName = NameAX
  /\ last.out = {10}
  /\ last.before = {}
  /\ AtMax(TableOf(info, NameA), 10)
  /\ WeightedFace(10) \in TableOf(info, NameAX)

\* C16 (as claimed): when the sample falls in the interval of position k,
\* the last position included, and the face at position k is eligible,
\* selectOutgoingFace returns the face at position k.
C16_SampleHonoured ==
  HasSel =>
    \A k \in SelSampled :
      SelEligibleAt(k) => sel.result = Selected(sel.order[k].face)

\* a call in which the hashed index iterates the table as 10, 30, 20: the
\* sample 21 is in the interval [20, INVALID_FACEID) of the last position,
\* whose face 20 is eligible, and in [10, 30) of the first; 10 is returned
C16_TwoIntervals ==
  /\ HasSel
  /\ Len(sel.order) = 3
  /\ sel.order[1].face = 10 /\ sel.order[2].face = 30 /\ sel.order[3].face = 20
  /\ sel.selection = 21
  /\ sel.inFace = 1
  /\ sel.viol = {}
  /\ sel.result = Selected(10)

\* C18 (as claimed): the ids handed to the sampler, the table iterated by
\* face id followed by INVALID_FACEID, are strictly ascending, and every
\* sample from the first id up to INVALID_FACEID is in the interval of
\* exactly one position.
C18_AscendingIds ==
  HasSel =>
    /\ \A i \in 1 .. Len(sel.order) :
         FaceIdsOf(sel.order)[i] < FaceIdsOf(sel.order)[i + 1]
    /\ (/\ Len(sel.order) >= 1
        /\ sel.order[1].face <= sel.selection
        /\ sel.selection < INVALID_FACEID) => Cardinality(SelSampled) = 1

\* a call in which the hashed index iterates the table {10, 20} as 20, 10
C18_Descending ==
  /\ HasSel
  /\ Len(sel.order) = 2
  /\ sel.order[1].face = 20
  /\ sel.order[2].face = 10

\* the last afterReceiveInterest sent the Interest on exactly one face, a
\* next hop of its FIB entry other than the ingress face
SentOnNextHop ==
  /\ last.result.kind = "face"
  /\ last.result.face \in last.hops
  /\ last.result.face # last.inFace
  /\ pit[last.name].out = last.out \cup {last.result.face}

\* the last afterReceiveInterest rejected the pending Interest
Rejected ==
  /\ last.result = NoFace
  /\ pit[last.name].out = last.out

\* C17 (as claimed): every afterReceiveInterest, whatever the decision, ends
\* with the Interest sent on exactly one face, a next hop of the FIB entry
\* passed to the call and not the ingress face, or with the pending Interest
\* rejected.
C17_SentOrRejected ==
  last.op = "interest" => (SentOnNextHop \/ Rejected)

\* an afterReceiveInterest for a FIB entry without next hops that ended in
\* neither way
C17_EmptyNextHops ==
  /\ last.op = "interest"
  /\ last.hops = {}
  /\ ~SentOnNextHop
  /\ ~Rejected

\* the event reached by a step demotes (expiry, or an Interest with decision
\* FORWARD or SUPPRESS) or records the delay of Data for a stamped PIT entry
RefreshingEvent(event) ==
  \/ event.op = "data" /\ event.stamped
  \/ event.op = "expire"
  \/ event.op = "interest" /\ Demotes(event.decision)

\* C19: Data for a stamped PIT entry and every demotion extend by 16 seconds,
\* once, the lifetime of each measurement entry on the ancestor chain of the
\* PIT entry's name that carries a MyMeasurementInfo, and of no other entry;
\* an afterReceiveInterest with decision NEW extends no lifetime.
C19_LifetimeRefresh ==
  [][LET carrying == {n \in ChainSet(last'.name) : info[n] # NoInfo}
         calls == last'.extended
     IN  /\ RefreshingEvent(last') =>
              /\ {calls[i].name : i \in 1 .. Len(calls)} = carrying
              /\ Len(calls) = Cardinality(carrying)
              /\ \A i \in 1 .. Len(calls) : calls[i].seconds = 16
         /\ (last'.op = "interest" /\ last'.decision = "NEW") =>
              calls = << >>]_vars

\* C19 witness: Data for a stamped entry /a/x on a face the table of /a/x
\* does not hold: the lifetimes of /a/x and of /a are extended, the root,
\* without MyMeasurementInfo, is not.
C19_Witness ==
  /\ last.op = "data"
  /\ last.stamped
  /\ last.name = NameAX
  /\ info[NameAX] # NoInfo
  /\ info[Root] = NoInfo
  /\ last.inFace \notin Ids(TableOf(info, NameAX))
  /\ last.extended = <<ExtendLifetime(NameAX, 16), ExtendLifetime(NameA, 16)>>

====
